---- MODULE Spec2Model ----
(***************************************************************************)
(* Model of lighthouse-core/gather/gatherers/inspector-issues.js: the      *)
(* InspectorIssues gatherer.  The gatherer registers a handler for         *)
(* 'Audits.issueAdded' on a protocol session, buffers every issue it is    *)
(* handed in this._issues, and _getArtifact reshapes the buffer into an    *)
(* artifact keyed by issue category, dropping details whose request is     *)
(* not among the network records.                                          *)
(***************************************************************************)
EXTENDS Integers, Sequences, FiniteSets, TLC

VARIABLES
  issues,     \* this._issues
  listeners,  \* how many times this._onIssueAdded is registered on the session
  calls,      \* the calls the gatherer has made on the session, in order
  pc,         \* the async method suspended at its await, or "idle"
  awaited,    \* the promise that method awaits: none, pending, fulfilled, rejected
  networkRecords, \* the network records the suspended method holds or is handed
  outcome,    \* how the last async method settled
  result,     \* what the last run of _getArtifact did, with the inputs it read
  fired,      \* how many 'Audits.issueAdded' events the session has emitted
  lastEmit    \* the last entry the session emitted

vars ==
  <<issues, listeners, calls, pc, awaited, networkRecords, outcome, result,
    fired, lastEmit>>

(***************************************************************************)
(* Bounds of the model.                                                    *)
(***************************************************************************)
MaxIssues == 2    \* buffer length reached by direct onIssueAdded calls
MaxRecords == 1   \* length of a network-record sequence
MaxCalls == 3     \* start/stop/afterPass invocations on one session
MaxEmits == 2     \* events the session emits

(***************************************************************************)
(* The categories of the artifact, in the order of the object literal.     *)
(***************************************************************************)
Keys ==
  << "sameSiteCookieIssue", "mixedContentIssue", "blockedByResponseIssue",
     "heavyAdIssue", "contentSecurityPolicyIssue", "sharedArrayBufferIssue",
     "twaQualityEnforcement", "lowTextContrastIssue", "corsIssue",
     "attributionReportingIssue", "quirksModeIssue", "navigatorUserAgentIssue",
     "wasmCrossOriginModuleSharingIssue", "genericIssue", "deprecationIssue" >>

KeySet == {Keys[i] : i \in 1..Len(Keys)}

\* const artifact = {sameSiteCookieIssue: [], ..., deprecationIssue: []}
EmptyArtifact == [key \in KeySet |-> <<>>]

\* The sub-field named by the uniform rule for every category, the wasm one
\* included.
DetailsKey_AlwaysSuffixed(key) == key \o "Details"

\* The sub-field of issue.details a category reads.
DetailsKey(key) ==
  IF key = "wasmCrossOriginModuleSharingIssue" THEN key ELSE key \o "Details"

\* The property names an issue's details object may carry in the model: the
\* fifteen suffixed names, of which the code reads all but the wasm one, and
\* the bare wasm name it reads instead.
FieldNames ==
  {Keys[i] \o "Details" : i \in 1..Len(Keys)}
    \cup {"wasmCrossOriginModuleSharingIssue"}

(***************************************************************************)
(* JavaScript values.  A detail is undefined, null or an object; an object *)
(* has a payload (tag) and a request property that is absent, undefined,   *)
(* null or an object whose requestId is undefined or a string.             *)
(***************************************************************************)
Undefined == [kind |-> "undefined"]
Null == [kind |-> "null"]
NoRequest == [kind |-> "absent"]
NoId == "<undefined>"
Request(requestId) == [kind |-> "object", requestId |-> requestId]
Detail(tag, request) == [kind |-> "object", tag |-> tag, request |-> request]

\* if (detail)
Truthy(detail) == detail.kind = "object"

\* Object.prototype.hasOwnProperty.call(detail, 'request')
HasOwnRequest(detail) == detail.request.kind # "absent"

\* detail.request.requestId reads a property of undefined or null: TypeError
ReadRequestIdThrows(detail) == detail.request.kind \in {"undefined", "null"}

\* A test of the identifier against undefined only: '' passes it.
TruthyId_OnlyUndefined(requestId) == requestId # NoId

\* the left operand of (requestId && ...): undefined and '' are falsy
TruthyId(requestId) == requestId \notin {NoId, ""}

\* Find with the comparison lost: networkRecords.find(req => req.requestId)
Find_AnyRecord(records, requestId) ==
  \E j \in 1..Len(records) : records[j].requestId \notin {NoId, ""}

\* networkRecords.find(req => req.requestId === requestId), as a condition
Find(records, requestId) ==
  \E j \in 1..Len(records) : records[j].requestId = requestId

(***************************************************************************)
(* _getArtifact.                                                           *)
(***************************************************************************)
\* this._issues.map(issue => issue.details[detailsKey]) throws when an issue
\* is undefined or has no details object.
MapThrows(buffer) ==
  \E i \in 1..Len(buffer) : ~buffer[i].hasDetails

\* AllDetails reading an issue as a tagged union: only the first populated
\* sub-field of an issue is handed on.
AllDetails_OnePerIssue(buffer, detailsKey) ==
  [i \in 1..Len(buffer) |->
     IF \E k \in 1..Len(Keys) :
          /\ DetailsKey(Keys[k]) = detailsKey
          /\ \A h \in 1..(k - 1) :
               buffer[i].details[DetailsKey(Keys[h])].kind # "object"
       THEN buffer[i].details[detailsKey]
       ELSE Undefined]

AllDetails(buffer, detailsKey) ==
  [i \in 1..Len(buffer) |-> buffer[i].details[detailsKey]]

\* Push as artifact[key].unshift(detail)
Push_Front(arr, detail) == <<detail>> \o arr

\* artifact[key].push(detail)
Push(arr, detail) == Append(arr, detail)

\* Lines 100-115: the loop over allDetails from index i, arr being artifact[key].
RECURSIVE PushDetails(_, _, _, _)
PushDetails(arr, allDetails, i, records) ==
  IF i > Len(allDetails) THEN [threw |-> FALSE, arr |-> arr]
  ELSE LET detail == allDetails[i] IN
    IF ~Truthy(detail)
      THEN PushDetails(arr, allDetails, i + 1, records)
    ELSE IF HasOwnRequest(detail)
      THEN IF ReadRequestIdThrows(detail)
             THEN [threw |-> TRUE, arr |-> arr]
           ELSE IF TruthyId(detail.request.requestId)
                   /\ Find(records, detail.request.requestId)
             THEN PushDetails(Push(arr, detail), allDetails, i + 1, records)
           ELSE PushDetails(arr, allDetails, i + 1, records)
    ELSE PushDetails(Push(arr, detail), allDetails, i + 1, records)

\* Lines 96-116: the loop over keys from index k.
RECURSIVE ForKeys(_, _, _, _)
ForKeys(artifact, k, buffer, records) ==
  IF k > Len(Keys) THEN [kind |-> "artifact", artifact |-> artifact]
  ELSE IF MapThrows(buffer) THEN [kind |-> "threw"]
  ELSE LET key == Keys[k]
           r == PushDetails(artifact[key], AllDetails(buffer, DetailsKey(key)),
                            1, records)
       IN IF r.threw THEN [kind |-> "threw"]
          ELSE ForKeys([artifact EXCEPT ![key] = r.arr], k + 1, buffer, records)

\* _getArtifact pruning the categories it left empty before it returns.
GetArtifactOf_DropEmpty(buffer, records) ==
  LET r == ForKeys(EmptyArtifact, 1, buffer, records) IN
    IF r.kind = "threw" THEN r
    ELSE [kind |-> "artifact",
          artifact |-> [key \in {k \in KeySet : r.artifact[k] # <<>>} |->
                          r.artifact[key]]]

\* _getArtifact leaving every category empty when it is given no network
\* records: the loop over the details is skipped, the map over the buffer is
\* still run.
GetArtifactOf_NothingWithoutRecords(buffer, records) ==
  IF records = <<>> /\ ~MapThrows(buffer)
    THEN [kind |-> "artifact", artifact |-> EmptyArtifact]
    ELSE ForKeys(EmptyArtifact, 1, buffer, records)

\* _getArtifact returning null in place of every category when the buffer
\* holds no issue.
GetArtifactOf_NullWhenEmpty(buffer, records) ==
  IF buffer = <<>>
    THEN [kind |-> "artifact", artifact |-> [key \in KeySet |-> Null]]
    ELSE ForKeys(EmptyArtifact, 1, buffer, records)

\* _getArtifact(networkRecords) on a gatherer whose buffer is `buffer`: the
\* artifact it returns, or the fact that it threw.
GetArtifactOf(buffer, records) ==
  ForKeys(EmptyArtifact, 1, buffer, records)

\* _getArtifact with `artifact` kept on the instance: a run pushes onto the
\* arrays that the run before it returned.
RunOf_Accumulates(buffer, records) ==
  LET start == IF result.kind = "artifact" THEN result.artifact ELSE EmptyArtifact
      r == ForKeys(start, 1, buffer, records)
  IN IF r.kind = "threw"
       THEN [kind |-> "threw", issues |-> buffer, networkRecords |-> records]
       ELSE [kind |-> "artifact", issues |-> buffer,
             networkRecords |-> records, artifact |-> r.artifact]

\* What a run of _getArtifact leaves in `result`.
RunOf(buffer, records) ==
  LET r == GetArtifactOf(buffer, records) IN
    IF r.kind = "threw"
      THEN [kind |-> "threw", issues |-> buffer, networkRecords |-> records]
      ELSE [kind |-> "artifact", issues |-> buffer,
            networkRecords |-> records, artifact |-> r.artifact]

(***************************************************************************)
(* Inputs: the issues the session may deliver and the network records.     *)
(***************************************************************************)
NoFields == [f \in FieldNames |-> Undefined]
Issue(fields) == [hasDetails |-> TRUE, details |-> fields]
Issue1(f, d) == Issue([NoFields EXCEPT ![f] = d])
Issue2(f, d, g, e) == Issue([NoFields EXCEPT ![f] = d, ![g] = e])

GenericIssue == Issue1("genericIssueDetails", Detail(1, NoRequest))
CorsIssueR1 == Issue1("corsIssueDetails", Detail(2, Request("R1")))
MixedIssueR2 == Issue1("mixedContentIssueDetails", Detail(3, Request("R2")))
CorsIssueEmptyId == Issue1("corsIssueDetails", Detail(4, Request("")))
CorsIssueNoId == Issue1("corsIssueDetails", Detail(5, Request(NoId)))
TwoFieldIssue ==
  Issue2("corsIssueDetails", Detail(6, Request("R1")),
         "genericIssueDetails", Detail(7, NoRequest))
WasmIssue ==
  Issue2("wasmCrossOriginModuleSharingIssue", Detail(8, NoRequest),
         "wasmCrossOriginModuleSharingIssueDetails", Detail(9, NoRequest))
EmptyIssue == Issue(NoFields)
NullFieldIssue == Issue1("corsIssueDetails", Null)
NullRequestIssue == Issue1("corsIssueDetails", [kind |-> "object", tag |-> 10, request |-> Null])
NoDetailsIssue == [hasDetails |-> FALSE]

WellFormedIssues ==
  { GenericIssue, CorsIssueR1, MixedIssueR2, CorsIssueEmptyId, CorsIssueNoId,
    TwoFieldIssue, WasmIssue, EmptyIssue, NullFieldIssue }
MalformedIssues == { NullRequestIssue, NoDetailsIssue }
Issues == WellFormedIssues \cup MalformedIssues

\* An 'Audits.issueAdded' event: {issue: ...}
Entries == {[issue |-> i] : i \in Issues}
SessionEntries == {[issue |-> i] : i \in {CorsIssueR1, NullRequestIssue}}

RequestIds == {"", "R1", "R2"}
NetworkRequest(requestId) == [requestId |-> requestId]
RECURSIVE SeqsUpTo(_, _)
SeqsUpTo(S, n) ==
  IF n = 0 THEN {<<>>}
  ELSE LET shorter == SeqsUpTo(S, n - 1) IN
    shorter \cup {Append(s, x) : s \in shorter, x \in S}
NetworkRecordSeqs == SeqsUpTo({NetworkRequest(r) : r \in RequestIds}, MaxRecords)
SessionRecordSeqs == {<<>>, <<NetworkRequest("R1")>>}

(***************************************************************************)
(* The gatherer.                                                           *)
(***************************************************************************)
NoOutcome == [op |-> "none"]
NoResult == [kind |-> "none"]

\* constructor(): this._issues = []; nothing registered, nothing sent.
Init ==
  /\ issues = <<>>
  /\ listeners = 0
  /\ calls = <<>>
  /\ pc = "idle"
  /\ awaited = "none"
  /\ networkRecords = <<>>
  /\ outcome = NoOutcome
  /\ result = NoResult
  /\ fired = 0
  /\ lastEmit = [issue |-> Undefined]

\* onIssueAdded keeping only the issue it was last given.
OnIssueAdded_KeepsLast(buffer, entry) == <<entry.issue>>

\* onIssueAdded(entry): this._issues.push(entry.issue)
OnIssueAdded(buffer, entry) == Append(buffer, entry.issue)

\* A direct call of gatherer.onIssueAdded(entry).
CallOnIssueAdded ==
  /\ Len(issues) < MaxIssues
  /\ \E entry \in Entries : issues' = OnIssueAdded(issues, entry)
  /\ UNCHANGED <<listeners, calls, pc, awaited, networkRecords, outcome, result,
                 fired, lastEmit>>

\* A direct call of gatherer._getArtifact(networkRecords).
CallGetArtifact ==
  /\ \E records \in NetworkRecordSeqs : result' = RunOf(issues, records)
  /\ UNCHANGED <<issues, listeners, calls, pc, awaited, networkRecords, outcome,
                 fired, lastEmit>>

BuildNext == CallOnIssueAdded \/ CallGetArtifact

\* The gatherer driven through its two synchronous methods alone.
SpecBuild == Init /\ [][BuildNext]_vars

(***************************************************************************)
(* The protocol session: on and off keep a list of handlers in which a     *)
(* handler may stand more than once, off removes one registration and is a *)
(* no-op when there is none, and an emitted event is handed to every       *)
(* registration in turn.  sendCommand returns a promise that the session   *)
(* later fulfils or rejects.                                               *)
(***************************************************************************)
On(n) == n + 1
Off(n) == IF n > 0 THEN n - 1 ELSE 0

RECURSIVE Dispatch(_, _, _)
Dispatch(buffer, entry, n) ==
  IF n = 0 THEN buffer ELSE Dispatch(OnIssueAdded(buffer, entry), entry, n - 1)

\* The session emits 'Audits.issueAdded'.
EmitIssueAdded ==
  /\ fired < MaxEmits
  /\ \E entry \in SessionEntries :
       /\ lastEmit' = entry
       /\ issues' = Dispatch(issues, entry, listeners)
  /\ fired' = fired + 1
  /\ UNCHANGED <<listeners, calls, pc, awaited, networkRecords, outcome, result>>

CommandPending == pc \in {"startInstrumentation", "stopInstrumentation", "afterPass"}

\* The session answers the command that was sent.
SendCommandFulfils ==
  /\ CommandPending /\ awaited = "pending"
  /\ awaited' = "fulfilled"
  /\ UNCHANGED <<issues, listeners, calls, pc, networkRecords, outcome, result,
                 fired, lastEmit>>

\* The session fails the command that was sent.
SendCommandRejects ==
  /\ CommandPending /\ awaited = "pending"
  /\ awaited' = "rejected"
  /\ UNCHANGED <<issues, listeners, calls, pc, networkRecords, outcome, result,
                 fired, lastEmit>>

\* NetworkRecords.request(devtoolsLog, context) yields the records.
NetworkRecordsFulfils ==
  /\ pc = "getArtifact" /\ awaited = "pending"
  /\ awaited' = "fulfilled"
  /\ \E records \in SessionRecordSeqs : networkRecords' = records
  /\ UNCHANGED <<issues, listeners, calls, pc, outcome, result, fired, lastEmit>>

\* NetworkRecords.request(devtoolsLog, context) fails.
NetworkRecordsRejects ==
  /\ pc = "getArtifact" /\ awaited = "pending"
  /\ awaited' = "rejected"
  /\ UNCHANGED <<issues, listeners, calls, pc, networkRecords, outcome, result,
                 fired, lastEmit>>

(***************************************************************************)
(* The async methods: each is one step up to its await and one step from   *)
(* it, taken when the awaited promise has settled.                         *)
(***************************************************************************)
CanCall == pc = "idle" /\ Len(calls) + 2 <= 2 * MaxCalls

Resolved(op) == [op |-> op, status |-> "resolved"]
Rejected(op, error) == [op |-> op, status |-> "rejected", error |-> error]

\* The method returns or throws: nothing is awaited any more.
Settle(how) ==
  /\ outcome' = how
  /\ pc' = "idle"
  /\ awaited' = "none"
  /\ networkRecords' = <<>>

\* startInstrumentation sending the command and awaiting it before it has
\* registered the handler.
StartInstrumentation_AwaitsFirst ==
  /\ CanCall
  /\ calls' = calls \o <<"Audits.enable">>
  /\ pc' = "startInstrumentation"
  /\ awaited' = "pending"
  /\ UNCHANGED <<issues, listeners, networkRecords, outcome, result, fired,
                 lastEmit>>

\* startInstrumentation up to its await: session.on(...), then
\* session.sendCommand('Audits.enable').
StartInstrumentation ==
  /\ CanCall
  /\ listeners' = On(listeners)
  /\ calls' = calls \o <<"on", "Audits.enable">>
  /\ pc' = "startInstrumentation"
  /\ awaited' = "pending"
  /\ UNCHANGED <<issues, networkRecords, outcome, result, fired, lastEmit>>

\* The enable command was fulfilled: startInstrumentation resolves.
StartInstrumentationReturns ==
  /\ pc = "startInstrumentation" /\ awaited = "fulfilled"
  /\ Settle(Resolved("startInstrumentation"))
  /\ UNCHANGED <<issues, listeners, calls, result, fired, lastEmit>>

\* startInstrumentation catching the rejection to unregister before it
\* rethrows.
StartInstrumentationThrows_RollsBack ==
  /\ pc = "startInstrumentation" /\ awaited = "rejected"
  /\ listeners' = Off(listeners)
  /\ calls' = Append(calls, "off")
  /\ Settle(Rejected("startInstrumentation", "Audits.enable"))
  /\ UNCHANGED <<issues, result, fired, lastEmit>>

\* The enable command was rejected: the await throws, startInstrumentation
\* rejects with it.
StartInstrumentationThrows ==
  /\ pc = "startInstrumentation" /\ awaited = "rejected"
  /\ Settle(Rejected("startInstrumentation", "Audits.enable"))
  /\ UNCHANGED <<issues, listeners, calls, result, fired, lastEmit>>

\* stopInstrumentation without its session.off(...).
StopUpToAwait_KeepsHandler ==
  /\ listeners' = listeners
  /\ calls' = calls \o <<"Audits.disable">>
  /\ awaited' = "pending"

\* stopInstrumentation returning at once when the handler is not registered.
StopUpToAwait_OnlyWhenRegistered ==
  IF listeners = 0
    THEN /\ listeners' = listeners
         /\ calls' = calls
         /\ awaited' = "fulfilled"
    ELSE /\ listeners' = Off(listeners)
         /\ calls' = calls \o <<"off", "Audits.disable">>
         /\ awaited' = "pending"

\* stopInstrumentation sending the disable command first and calling
\* session.off(...) next, before it awaits the command.
StopUpToAwait_DisableFirst ==
  /\ listeners' = Off(listeners)
  /\ calls' = calls \o <<"Audits.disable", "off">>
  /\ awaited' = "pending"

\* stopInstrumentation up to its await: session.off(...), then
\* session.sendCommand('Audits.disable').
StopUpToAwait ==
  /\ listeners' = Off(listeners)
  /\ calls' = calls \o <<"off", "Audits.disable">>
  /\ awaited' = "pending"

StopInstrumentation ==
  /\ CanCall
  /\ StopUpToAwait
  /\ pc' = "stopInstrumentation"
  /\ UNCHANGED <<issues, networkRecords, outcome, result, fired, lastEmit>>

\* The disable command was fulfilled: stopInstrumentation resolves.
StopInstrumentationReturns ==
  /\ pc = "stopInstrumentation" /\ awaited = "fulfilled"
  /\ Settle(Resolved("stopInstrumentation"))
  /\ UNCHANGED <<issues, listeners, calls, result, fired, lastEmit>>

\* The disable command was rejected: the await throws, stopInstrumentation
\* rejects with it.
StopInstrumentationThrows ==
  /\ pc = "stopInstrumentation" /\ awaited = "rejected"
  /\ Settle(Rejected("stopInstrumentation", "Audits.disable"))
  /\ UNCHANGED <<issues, listeners, calls, result, fired, lastEmit>>

\* How an async method that ends in `return this._getArtifact(...)` settles.
SettleWith(op, run) ==
  IF run.kind = "threw" THEN Rejected(op, "TypeError") ELSE Resolved(op)

\* afterPass up to its await: it calls stopInstrumentation and awaits it.
AfterPass ==
  /\ CanCall
  /\ StopUpToAwait
  /\ \E records \in SessionRecordSeqs : networkRecords' = records
  /\ pc' = "afterPass"
  /\ UNCHANGED <<issues, outcome, result, fired, lastEmit>>

\* stopInstrumentation resolved: afterPass returns
\* this._getArtifact(loadData.networkRecords).
AfterPassReturns ==
  /\ pc = "afterPass" /\ awaited = "fulfilled"
  /\ result' = RunOf(issues, networkRecords)
  /\ Settle(SettleWith("afterPass", result'))
  /\ UNCHANGED <<issues, listeners, calls, fired, lastEmit>>

\* afterPass catching the rejection of stopInstrumentation and building the
\* artifact all the same.
AfterPassThrows_BuildsAnyway ==
  /\ pc = "afterPass" /\ awaited = "rejected"
  /\ result' = RunOf(issues, networkRecords)
  /\ Settle(SettleWith("afterPass", result'))
  /\ UNCHANGED <<issues, listeners, calls, fired, lastEmit>>

\* stopInstrumentation rejected: the await throws and afterPass rejects.
AfterPassThrows ==
  /\ pc = "afterPass" /\ awaited = "rejected"
  /\ Settle(Rejected("afterPass", "Audits.disable"))
  /\ UNCHANGED <<issues, listeners, calls, result, fired, lastEmit>>

\* getArtifact up to its await of NetworkRecords.request(devtoolsLog, context).
GetArtifact ==
  /\ pc = "idle"
  /\ pc' = "getArtifact"
  /\ awaited' = "pending"
  /\ UNCHANGED <<issues, listeners, calls, networkRecords, outcome, result,
                 fired, lastEmit>>

\* The network records arrived: getArtifact returns
\* this._getArtifact(networkRecords).
GetArtifactReturns ==
  /\ pc = "getArtifact" /\ awaited = "fulfilled"
  /\ result' = RunOf(issues, networkRecords)
  /\ Settle(SettleWith("getArtifact", result'))
  /\ UNCHANGED <<issues, listeners, calls, fired, lastEmit>>

\* getArtifact catching the rejection and building from an empty list of
\* network records.
GetArtifactThrows_BuildsFromNothing ==
  /\ pc = "getArtifact" /\ awaited = "rejected"
  /\ result' = RunOf(issues, <<>>)
  /\ Settle(SettleWith("getArtifact", result'))
  /\ UNCHANGED <<issues, listeners, calls, fired, lastEmit>>

\* NetworkRecords.request rejected: the await throws, getArtifact rejects.
GetArtifactThrows ==
  /\ pc = "getArtifact" /\ awaited = "rejected"
  /\ Settle(Rejected("getArtifact", "NetworkRecords"))
  /\ UNCHANGED <<issues, listeners, calls, result, fired, lastEmit>>

Next ==
  \/ EmitIssueAdded
  \/ SendCommandFulfils
  \/ SendCommandRejects
  \/ NetworkRecordsFulfils
  \/ NetworkRecordsRejects
  \/ StartInstrumentation
  \/ StartInstrumentationReturns
  \/ StartInstrumentationThrows
  \/ StopInstrumentation
  \/ StopInstrumentationReturns
  \/ StopInstrumentationThrows
  \/ AfterPass
  \/ AfterPassReturns
  \/ AfterPassThrows
  \/ GetArtifact
  \/ GetArtifactReturns
  \/ GetArtifactThrows

\* The gatherer driven through a session, one async method in flight at a time.
Spec == Init /\ [][Next]_vars


(***************************************************************************)
(* The caller of an observation session: it starts the gatherer once,      *)
(* stops it once after that, by stopInstrumentation or by afterPass, and   *)
(* asks for the artifact by getArtifact only when stopInstrumentation has  *)
(* resolved.                                                               *)
(***************************************************************************)
Called(name) == \E i \in 1..Len(calls) : calls[i] = name

CallerMayStart == ~Called("Audits.enable") /\ ~Called("Audits.disable")
CallerMayStop == Called("Audits.enable") /\ ~Called("Audits.disable")
CallerMayBuild ==
  \/ outcome = Resolved("stopInstrumentation")
  \/ outcome.op = "getArtifact"

SessionStart == CallerMayStart /\ StartInstrumentation
SessionStop == CallerMayStop /\ StopInstrumentation
SessionAfterPass == CallerMayStop /\ AfterPass
SessionGetArtifact == CallerMayBuild /\ GetArtifact

SessionNext ==
  \/ EmitIssueAdded
  \/ SendCommandFulfils
  \/ SendCommandRejects
  \/ NetworkRecordsFulfils
  \/ NetworkRecordsRejects
  \/ SessionStart
  \/ StartInstrumentationReturns
  \/ StartInstrumentationThrows
  \/ SessionStop
  \/ StopInstrumentationReturns
  \/ StopInstrumentationThrows
  \/ SessionAfterPass
  \/ AfterPassReturns
  \/ AfterPassThrows
  \/ SessionGetArtifact
  \/ GetArtifactReturns
  \/ GetArtifactThrows

\* The gatherer driven through one observation session by that caller.
SpecSession == Init /\ [][SessionNext]_vars

(***************************************************************************)
(* Properties of _getArtifact, stated of the last run recorded in result:  *)
(* the buffer it read, the network records it was given, and the artifact  *)
(* it returned.                                                            *)
(***************************************************************************)
Built == result.kind = "artifact"

\* The detail the run read for a category from the i-th issue of the buffer.
DetailAt(i, key) == result.issues[i].details[DetailsKey(key)]

InCategory(detail, key) ==
  \E j \in 1..Len(result.artifact[key]) : result.artifact[key][j] = detail

Appears(detail) == \E key \in KeySet : InCategory(detail, key)

HasRecord(requestId) ==
  \E j \in 1..Len(result.networkRecords) :
    result.networkRecords[j].requestId = requestId

CarriesRequest(detail) == detail.request.kind # "absent"

\* C1 as stated: in a returned artifact, a detail that carries a request
\* reference appears if and only if some network record has its request
\* identifier, and a detail that carries none always appears.
C1_AsStated ==
  Built =>
    \A key \in KeySet : \A i \in 1..Len(result.issues) :
      LET detail == DetailAt(i, key) IN
        detail.kind = "object" =>
          IF CarriesRequest(detail)
            THEN Appears(detail) <=> HasRecord(detail.request.requestId)
            ELSE Appears(detail)

\* C1, amended: in a returned artifact, a detail that carries a request
\* reference appears if and only if its request identifier is non-empty and
\* some network record has that identifier; a detail that carries no request
\* reference always appears.
C1_RequestFilter ==
  Built =>
    \A key \in KeySet : \A i \in 1..Len(result.issues) :
      LET detail == DetailAt(i, key) IN
        detail.kind = "object" =>
          IF CarriesRequest(detail)
            THEN Appears(detail) <=>
                   /\ detail.request.requestId \notin {NoId, ""}
                   /\ HasRecord(detail.request.requestId)
            ELSE Appears(detail)

\* A run that kept one request-bearing detail, dropped another, dropped one
\* whose empty identifier a record shares, and kept a detail without request.
C1_Witness ==
  /\ Built
  /\ result.networkRecords = <<NetworkRequest("R1")>>
  /\ result.issues = <<TwoFieldIssue, MixedIssueR2>>
  /\ Len(result.artifact["corsIssue"]) = 1
  /\ Len(result.artifact["genericIssue"]) = 1
  /\ Len(result.artifact["mixedContentIssue"]) = 0

\* C2: every artifact _getArtifact returns has exactly the fifteen category
\* keys, each mapped to a sequence, whatever the buffer and the records.
C2_FifteenKeys ==
  Built =>
    /\ DOMAIN result.artifact = KeySet
    /\ Cardinality(DOMAIN result.artifact) = 15
    /\ \A key \in DOMAIN result.artifact :
         DOMAIN result.artifact[key] = 1..Len(result.artifact[key])

\* A returned artifact with a filled category next to empty ones.
C2_Witness ==
  /\ Built
  /\ Len(result.issues) = MaxIssues
  /\ result.networkRecords # <<>>
  /\ \E key \in KeySet : result.artifact[key] # <<>>
  /\ \E key \in KeySet : result.artifact[key] = <<>>

\* sub is full with some of its elements left out, the others in their order.
IsSubsequence(sub, full) ==
  \E f \in [1..Len(sub) -> 1..Len(full)] :
    /\ \A a, b \in 1..Len(sub) : a < b => f[a] < f[b]
    /\ \A a \in 1..Len(sub) : sub[a] = full[f[a]]

\* C3: within each category of a returned artifact the details stand in the
\* order in which their issues stand in the buffer.
C3_OrderPreserved ==
  Built =>
    \A key \in KeySet :
      IsSubsequence(result.artifact[key],
                    [i \in 1..Len(result.issues) |-> DetailAt(i, key)])

\* A category that received two different details from two issues.
C3_Witness ==
  /\ Built
  /\ \E key \in KeySet :
       /\ Len(result.artifact[key]) = 2
       /\ result.artifact[key][1] # result.artifact[key][2]

\* The filter of lines 101-113, in the words of the amended C1.
Kept(detail) ==
  /\ detail.kind = "object"
  /\ \/ ~CarriesRequest(detail)
     \/ /\ detail.request.requestId \notin {NoId, ""}
        /\ HasRecord(detail.request.requestId)

\* C4: in a returned artifact every element of a category was read from that
\* category's own sub-field and stands in no other category; every populated
\* sub-field of an issue that passes the request filter is in its category,
\* whatever else the issue populates; an issue with no populated sub-field
\* adds nothing.
C4_CategoryIsolation ==
  Built =>
    \A key \in KeySet :
      /\ \A j \in 1..Len(result.artifact[key]) :
           /\ \E i \in 1..Len(result.issues) :
                result.artifact[key][j] = DetailAt(i, key)
           /\ \A other \in KeySet \ {key} :
                ~InCategory(result.artifact[key][j], other)
      /\ Len(result.artifact[key]) =
           Cardinality({i \in 1..Len(result.issues) : Kept(DetailAt(i, key))})

\* An issue with two populated sub-fields that fed two categories, next to an
\* issue with none.
C4_Witness ==
  /\ Built
  /\ result.issues = <<TwoFieldIssue, EmptyIssue>>
  /\ result.artifact["corsIssue"] = <<Detail(6, Request("R1"))>>
  /\ result.artifact["genericIssue"] = <<Detail(7, NoRequest)>>

\* C5 as stated: _getArtifact never throws; a malformed issue is left out of
\* the artifact it returns.
C5_NeverRaises == result.kind # "threw"

(***************************************************************************)
(* Properties of the lifecycle.                                            *)
(***************************************************************************)
\* The step is the session emitting an event.
Emitted == fired' = fired + 1

\* The registrations a session holds after the calls of a log.
RECURSIVE RegisteredAfter(_)
RegisteredAfter(log) ==
  IF log = <<>> THEN 0
  ELSE LET n == RegisteredAfter(SubSeq(log, 1, Len(log) - 1))
           call == log[Len(log)]
       IN IF call = "on" THEN n + 1
          ELSE IF call = "off" /\ n > 0 THEN n - 1
          ELSE n

\* stopInstrumentation was the last method to run and it has resolved, by
\* itself or inside afterPass; its two calls are the last of the log.
StopReturned ==
  /\ pc = "idle"
  /\ outcome \in { Resolved("stopInstrumentation"), Resolved("afterPass"),
                   Rejected("afterPass", "TypeError") }

\* The registrations the session held when the last stop was invoked.
RegisteredBeforeStop == RegisteredAfter(SubSeq(calls, 1, Len(calls) - 2))

\* C6: once stopInstrumentation has returned, a handler that was registered
\* at most once is registered no more, and from then on no step, an emitted
\* event included, changes the buffer; an artifact built from an empty buffer
\* has every category empty.
C6_BufferFinalAfterStop ==
  /\ [](StopReturned /\ RegisteredBeforeStop <= 1 => listeners = 0)
  /\ [][StopReturned /\ listeners = 0 => issues' = issues]_vars
  /\ [](StopReturned /\ Built /\ result.issues = <<>> =>
          \A key \in KeySet : result.artifact[key] = <<>>)

\* start, one event, stop returned, and a second event that left the buffer
\* as it was.
C6_Witness ==
  /\ pc = "idle" /\ outcome = Resolved("stopInstrumentation")
  /\ calls = <<"on", "Audits.enable", "off", "Audits.disable">>
  /\ listeners = 0
  /\ fired = 2
  /\ issues = <<CorsIssueR1>>
  /\ lastEmit.issue = NullRequestIssue

\* C7: startInstrumentation has registered the handler when it sends the
\* enable command, so the handler is registered all the while the command is
\* pending; an event emitted while the handler is registered once is appended
\* once, as it is, at the end of the buffer, an event emitted while it is not
\* registered is not appended, and nothing else changes the buffer.
C7_RegisteredBeforeEnable ==
  /\ [](pc = "startInstrumentation" => listeners >= 1)
  /\ [](\A i \in 1..Len(calls) :
          calls[i] = "Audits.enable" => i > 1 /\ calls[i - 1] = "on")
  /\ [][Emitted =>
          /\ listeners = 0 => issues' = issues
          /\ listeners = 1 => issues' = Append(issues, lastEmit'.issue)]_vars
  /\ [][~Emitted => issues' = issues]_vars

\* Two events emitted while the enable command was pending, both in the
\* buffer in their order, the malformed one too.
C7_Witness ==
  /\ pc = "startInstrumentation" /\ awaited = "pending"
  /\ calls = <<"on", "Audits.enable">>
  /\ fired = 2
  /\ issues = <<CorsIssueR1, NullRequestIssue>>

\* startInstrumentation was the last method to run and it rejected.
StartRejected ==
  /\ pc = "idle"
  /\ outcome = Rejected("startInstrumentation", "Audits.enable")

\* C8: when the enable command rejects, startInstrumentation rejects with
\* that failure and calls nothing on the session; the handler stays
\* registered, and an event emitted afterwards is appended to the buffer.
C8_NoRollback ==
  /\ [][pc = "startInstrumentation" /\ awaited = "rejected" /\ pc' # pc =>
          /\ outcome' = Rejected("startInstrumentation", "Audits.enable")
          /\ listeners' = listeners
          /\ calls' = calls
          /\ issues' = issues]_vars
  /\ [](StartRejected => listeners >= 1)
  /\ [][StartRejected /\ Emitted =>
          /\ Len(issues') = Len(issues) + listeners
          /\ issues'[Len(issues')] = lastEmit'.issue]_vars

\* A rejected start that left the handler registered, and an event in the
\* buffer.
C8_Witness ==
  /\ StartRejected
  /\ calls = <<"on", "Audits.enable">>
  /\ listeners = 1
  /\ fired = 1
  /\ issues = <<CorsIssueR1>>

\* The step is a call of stopInstrumentation, by the caller or by afterPass.
StopCalled == pc = "idle" /\ pc' \in {"stopInstrumentation", "afterPass"}

\* C9: called with the handler registered once or not at all,
\* stopInstrumentation calls off and sends the disable command without
\* failing, leaves the buffer as it is, and leaves no handler registered.
C9_StopSafe ==
  [][StopCalled /\ listeners <= 1 =>
       /\ calls' = calls \o <<"off", "Audits.disable">>
       /\ awaited' = "pending"
       /\ listeners' = 0
       /\ issues' = issues]_vars

\* A stop called on a session on which nothing was ever registered, with the
\* disable command answered.
C9_Witness ==
  /\ pc = "stopInstrumentation" /\ awaited = "fulfilled"
  /\ calls = <<"off", "Audits.disable">>
  /\ listeners = 0

\* C10: when the disable command rejects, stopInstrumentation rejects with
\* that failure; afterPass then rejects with it and does not run
\* _getArtifact; the handler registered at most once was unregistered before
\* the command was sent, and the buffer is as it was.
C10_DisableRejectionPropagates ==
  /\ [][pc = "stopInstrumentation" /\ awaited = "rejected" /\ pc' # pc =>
          /\ outcome' = Rejected("stopInstrumentation", "Audits.disable")
          /\ issues' = issues /\ listeners' = listeners /\ result' = result]_vars
  /\ [][pc = "afterPass" /\ awaited = "rejected" /\ pc' # pc =>
          /\ outcome' = Rejected("afterPass", "Audits.disable")
          /\ issues' = issues /\ listeners' = listeners /\ result' = result]_vars
  /\ [](/\ pc \in {"stopInstrumentation", "afterPass"}
        /\ awaited = "rejected"
        /\ RegisteredBeforeStop <= 1
        => listeners = 0)

\* afterPass rejected by the disable command: a buffer with an issue in it,
\* no handler, and no artifact ever built.
C10_Witness ==
  /\ pc = "idle" /\ outcome = Rejected("afterPass", "Audits.disable")
  /\ issues = <<CorsIssueR1>>
  /\ listeners = 0
  /\ result = NoResult

\* C11: when NetworkRecords.request rejects, getArtifact rejects with that
\* failure without running _getArtifact, and as long as the records have not
\* arrived getArtifact runs no build and changes neither buffer nor session.
C11_ResolverRejectionPropagates ==
  /\ [][pc = "getArtifact" /\ awaited = "rejected" /\ pc' # pc =>
          /\ outcome' = Rejected("getArtifact", "NetworkRecords")
          /\ result' = result
          /\ issues' = issues /\ listeners' = listeners /\ calls' = calls]_vars
  /\ [][pc = "getArtifact" /\ awaited # "fulfilled" => result' = result]_vars

\* getArtifact rejected by the resolver over a buffer that holds an issue, and
\* no artifact was ever built.
C11_Witness ==
  /\ pc = "idle" /\ outcome = Rejected("getArtifact", "NetworkRecords")
  /\ issues = <<CorsIssueR1>>
  /\ result = NoResult

\* The step is getArtifact or afterPass running _getArtifact.
BuildRuns ==
  /\ pc \in {"getArtifact", "afterPass"}
  /\ awaited = "fulfilled"
  /\ pc' = "idle"

C13_BuilderPure ==
  /\ [][BuildRuns =>
          /\ issues' = issues /\ listeners' = listeners /\ calls' = calls
          /\ result'.issues = issues
          /\ result'.networkRecords = networkRecords]_vars
  /\ [][/\ Built
        /\ result'.kind = "artifact"
        /\ result'.issues = result.issues
        /\ result'.networkRecords = result.networkRecords
        => result'.artifact = result.artifact]_vars

\* getArtifact returned an artifact of a non-empty buffer while the handler
\* was registered, and buffer, handler and call log are as they were.
C13_Witness ==
  /\ pc = "idle" /\ outcome = Resolved("getArtifact")
  /\ Built
  /\ result.artifact["corsIssue"] # <<>>
  /\ result.issues = issues
  /\ listeners = 1
  /\ calls = <<"on", "Audits.enable">>

\* The details of a category that carry no request reference, in their order.
WithoutRequest(details) ==
  LET Free(detail) == ~CarriesRequest(detail) IN SelectSeq(details, Free)

\* C14: two artifacts returned one after the other for the same buffer, with
\* whatever network records, hold in every category the same details without
\* request reference in the same order; and a detail without request
\* reference read for a category is in that category whatever the records.
C14_RecordsTouchOnlyRequests ==
  /\ [][/\ Built
        /\ result'.kind = "artifact"
        /\ result'.issues = result.issues
        => \A key \in KeySet :
             WithoutRequest(result'.artifact[key])
               = WithoutRequest(result.artifact[key])]_vars
  /\ [](Built =>
          \A key \in KeySet : \A i \in 1..Len(result.issues) :
            LET detail == DetailAt(i, key) IN
              detail.kind = "object" /\ ~CarriesRequest(detail)
                => InCategory(detail, key))

\* A build without any network record: the generic detail is in its category,
\* the cors detail of the same buffer is not.
C14_Witness ==
  /\ Built
  /\ result.networkRecords = <<>>
  /\ result.issues = <<GenericIssue, CorsIssueR1>>
  /\ result.artifact["genericIssue"] = <<Detail(1, NoRequest)>>
  /\ result.artifact["corsIssue"] = <<>>

\* C15: the buffer is empty at construction; every step leaves the buffer it
\* found as a prefix of the buffer it leaves; and the buffer changes only in
\* a step in which the session emits the event to a registered handler, by
\* the issue of that event.
C15_AppendOnly ==
  /\ issues = <<>>
  /\ [][/\ Len(issues') >= Len(issues)
        /\ SubSeq(issues', 1, Len(issues)) = issues]_vars
  /\ [][issues' # issues =>
          /\ Emitted /\ listeners > 0
          /\ \A i \in (Len(issues) + 1)..Len(issues') :
               issues'[i] = lastEmit'.issue]_vars

\* An artifact was built from a buffer of one issue, and the buffer has
\* grown by a second issue since.
C15_Witness ==
  /\ Built
  /\ result.issues = <<CorsIssueR1>>
  /\ issues = <<CorsIssueR1, NullRequestIssue>>

\* C16: an artifact built from an empty buffer, with whatever network
\* records, has the fifteen categories and every one of them is the empty
\* array.
C16_EmptyBufferEmptyArtifact ==
  Built /\ result.issues = <<>> =>
    /\ DOMAIN result.artifact = KeySet
    /\ \A key \in KeySet : result.artifact[key] = <<>>

\* A build from the empty buffer with a network record at hand.
C16_Witness ==
  /\ Built
  /\ result.issues = <<>>
  /\ result.networkRecords = <<NetworkRequest("R1")>>
  /\ result.artifact["corsIssue"] = <<>>

\* The last call on the session was the disable command of a stop.
LastCallWasStop ==
  /\ Len(calls) >= 2
  /\ calls[Len(calls) - 1] = "off"
  /\ calls[Len(calls)] = "Audits.disable"

\* C17 as stated: however many times startInstrumentation has registered the
\* handler, an emitted event is appended exactly once, and once a stop was
\* the last call on the session no handler is registered and an emitted
\* event leaves the buffer as it is.
C17_DuplicateStartSafe ==
  /\ [][Emitted /\ listeners >= 1 =>
          issues' = Append(issues, lastEmit'.issue)]_vars
  /\ [](LastCallWasStop => listeners = 0)
  /\ [][Emitted /\ LastCallWasStop => issues' = issues]_vars

\* The disable command of the last stop was rejected.
StopRejected ==
  /\ pc = "idle"
  /\ outcome \in { Rejected("stopInstrumentation", "Audits.disable"),
                   Rejected("afterPass", "Audits.disable") }

\* stopInstrumentation has been invoked and has not returned, or its disable
\* command was rejected.
StopUnderWay == pc \in {"stopInstrumentation", "afterPass"} \/ StopRejected

\* C18: every disable command in the log comes right after an off; from the
\* moment stopInstrumentation is invoked on a handler registered at most
\* once, while the disable command is pending, answered or rejected, the
\* handler is not registered and an emitted event leaves the buffer as it is.
C18_UnregistersBeforeDisable ==
  /\ [](\A i \in 1..Len(calls) :
          calls[i] = "Audits.disable" => i > 1 /\ calls[i - 1] = "off")
  /\ [](StopUnderWay /\ RegisteredBeforeStop <= 1 => listeners = 0)
  /\ [][StopUnderWay /\ RegisteredBeforeStop <= 1 /\ Emitted =>
          issues' = issues]_vars

\* start, one event appended, stop invoked, and a second event emitted while
\* the disable command is pending that is not in the buffer.
C18_Witness ==
  /\ pc = "stopInstrumentation" /\ awaited = "pending"
  /\ calls = <<"on", "Audits.enable", "off", "Audits.disable">>
  /\ fired = 2
  /\ issues = <<CorsIssueR1>>
  /\ lastEmit.issue = NullRequestIssue

WasmKey == "wasmCrossOriginModuleSharingIssue"

\* C19: in a returned artifact every detail of a category is the value some
\* issue of the buffer holds under "<key>Details", under the bare key for
\* the wasm category; a detail without request reference held under that
\* name is in the category; and a value held under
\* "wasmCrossOriginModuleSharingIssueDetails" is in no category.
C19_SubFieldNames ==
  Built =>
    /\ \A key \in KeySet : \A j \in 1..Len(result.artifact[key]) :
         \E i \in 1..Len(result.issues) :
           result.issues[i].details[IF key = WasmKey THEN WasmKey
                                                     ELSE key \o "Details"]
             = result.artifact[key][j]
    /\ \A i \in 1..Len(result.issues) :
         LET fields == result.issues[i].details IN
           /\ fields[WasmKey].kind = "object" /\ ~CarriesRequest(fields[WasmKey])
                => InCategory(fields[WasmKey], WasmKey)
           /\ fields[WasmKey \o "Details"].kind = "object"
                => ~Appears(fields[WasmKey \o "Details"])
           /\ \A key \in KeySet \ {WasmKey} :
                LET detail == fields[key \o "Details"] IN
                  detail.kind = "object" /\ ~CarriesRequest(detail)
                    => InCategory(detail, key)

\* An issue holding one detail under the bare wasm name and another under
\* the suffixed one: the first alone is in the wasm category.
C19_Witness ==
  /\ Built
  /\ result.issues = <<WasmIssue>>
  /\ result.artifact[WasmKey] = <<Detail(8, NoRequest)>>
  /\ ~Appears(Detail(9, NoRequest))

\* C20: in a returned artifact a detail whose request reference has an
\* undefined or empty request identifier is in no category, whatever the
\* network records are.
C20_EmptyIdNeverIncluded ==
  Built =>
    \A key \in KeySet : \A i \in 1..Len(result.issues) :
      LET detail == DetailAt(i, key) IN
        /\ detail.kind = "object"
        /\ detail.request.kind = "object"
        /\ detail.request.requestId \in {NoId, ""}
        => ~Appears(detail)

\* A detail whose request identifier is empty, built with a network record
\* that has the same empty identifier: the cors category is empty.
C20_Witness ==
  /\ Built
  /\ result.issues = <<CorsIssueEmptyId>>
  /\ result.networkRecords = <<NetworkRequest("")>>
  /\ result.artifact["corsIssue"] = <<>>

====
